---- MODULE Spec2Model ----
(***************************************************************************)
(* Work catalog of src/app/@content/works/data.ts: the image descriptor    *)
(* builders, the catalog literal workDetailsData, and the query functions  *)
(* derived from it.                                                        *)
(*                                                                         *)
(* JavaScript values are modelled as follows.                              *)
(*   - a string is a TLA+ string (a character of the source outside ASCII  *)
(*     is written as its six-character escape, e.g. \u2014);         *)
(*   - an array is a sequence;                                             *)
(*   - an object with a fixed shape (WorkImage, WorkAbout, WorkDetail) is  *)
(*     a record whose DOMAIN is the set of its own property names, so an   *)
(*     optional property that was never set is a name outside DOMAIN;      *)
(*   - workDetailsData, whose keys are data, is the sequence of its own    *)
(*     properties [key, value] in insertion order; its prototype, at load  *)
(*     Object.prototype, is the variable prototype;                        *)
(*   - undefined, a number argument and a value inherited from             *)
(*     Object.prototype are tagged records [type |-> ...].                 *)
(***************************************************************************)
EXTENDS Integers, Sequences, FiniteSets, TLC

VARIABLES
  workDetailsData,  \* own properties of the exported catalog object, in insertion order
  prototype,        \* the [[Prototype]] of the exported catalog object
  worksData,        \* the exported summary array, computed once at module load
  calls             \* the calls made so far: [op, args, result], oldest first

vars == <<workDetailsData, prototype, worksData, calls>>

----------------------------------------------------------------------------
(* Bounds of the model *)

\* number of calls a behaviour makes after module load
MaxCalls == 2

\* longest generated source string handed to generateSrcSet
MaxSrcLen == 3

----------------------------------------------------------------------------
(* JavaScript values *)

Undefined == [type |-> "undefined"]

Num(n) == [type |-> "number", value |-> n]

\* the number NaN: provided, and falsy
NaN == [type |-> "NaN"]

\* ToBoolean of an optional number argument: undefined, 0 are falsy
Truthy(v) == v.type = "number" /\ v.value # 0

\* the empty object, as a function with no own property
NoProps == <<>>

Range(s) == {s[i] : i \in DOMAIN s}

----------------------------------------------------------------------------
(* Image descriptor builders *)

\* faulty variant: the separating comma after the 2048w entry is lost
generateSrcSetMissingComma(src) ==
  src \o "?scale-down-to=512 512w," \o src \o "?scale-down-to=1024 1024w,"
      \o src \o "?scale-down-to=2048 2048w" \o src \o "?scale-down-to=4096 4096w,"
      \o src \o " 4500w"

generateSrcSet(src) ==
  src \o "?scale-down-to=512 512w," \o src \o "?scale-down-to=1024 1024w,"
      \o src \o "?scale-down-to=2048 2048w," \o src \o "?scale-down-to=4096 4096w,"
      \o src \o " 4500w"

\* faulty variant: a dimension is kept whenever it is a number, 0 too
createWorkImageIfNumber(src, alt, width, height) ==
  [src |-> src, srcSet |-> generateSrcSet(src), alt |-> alt]
    @@ (IF width.type = "number" THEN [width |-> width.value] ELSE NoProps)
    @@ (IF height.type = "number" THEN [height |-> height.value] ELSE NoProps)
    @@ [sizes |-> "calc(100vw - 24px)"]

\* { src, srcSet, alt, ...(width && { width }), ...(height && { height }), sizes }
createWorkImage(src, alt, width, height) ==
  [src |-> src, srcSet |-> generateSrcSet(src), alt |-> alt]
    @@ (IF Truthy(width) THEN [width |-> width.value] ELSE NoProps)
    @@ (IF Truthy(height) THEN [height |-> height.value] ELSE NoProps)
    @@ [sizes |-> "calc(100vw - 24px)"]

\* faulty variant: the hero builder passes height and width in the wrong order
createHeroImageSwapped(src, alt) == createWorkImage(src, alt, Num(1600), Num(2400))

createHeroImage(src, alt) == createWorkImage(src, alt, Num(2400), Num(1600))

\* faulty variant: the secondary builder passes the hero dimensions on
createSecondaryImageWithDims(src, alt) == createWorkImage(src, alt, Num(2400), Num(1600))

createSecondaryImage(src, alt) == createWorkImage(src, alt, Undefined, Undefined)

----------------------------------------------------------------------------
(* The catalog literal *)

workDetailsDataLiteral ==
  <<
    [key |-> "corevia-financial-platform",
     value |-> [
       id |-> "corevia-financial-platform",
       title |-> "Corevia Financial Management Platform",
       description |-> "Modern financial consulting website with comprehensive service pages and responsive design.",
       category |-> "products",
       thumbnailImage |-> "https://cdn.prod.website-files.com/687a676ef5e70f7d641d3080/687ff334971f215c6e7c3f51_LogoCorevia.svg",
       heroImage |-> createHeroImage("/Coreva/work/Hero_image.png", "Corevia Financial Platform Hero"),
       secondaryImage |-> createSecondaryImage("/Coreva/work/Secondary.png", "Corevia Multi-Page Interface"),
       about |-> [
         client |-> "Corevia Consulting",
         contribution |-> "Frontend Development, UI Implementation, Responsive Design",
         year |-> "2024"
       ],
       fullDescription |-> "A comprehensive financial management platform built for Corevia Consulting, featuring multiple service pages including Home, About, Features, Pricing, Blog, and Contact. The platform showcases financial analytics tools, investment management services, and digital transformation solutions. Built with modern web technologies to deliver a seamless user experience across all devices with intuitive navigation and engaging visual design.",
       processImage |-> createSecondaryImage("/Coreva/work/processing.png", "Corevia Development Process"),
       problemTitle |-> "The Challenge",
       problemDescription |-> <<
         "Corevia Consulting needed a professional digital presence to showcase their financial management and consulting services to potential clients. The challenge was to create a scalable, multi-page website that could effectively communicate complex financial concepts while maintaining an approachable and modern aesthetic. The platform needed to serve diverse audiences including small businesses, growing teams, and enterprise clients.",
         "The website required clear presentation of service offerings across budgeting tools, investment management, digital transformation consulting, and market expansion strategies. Additionally, the platform needed to include comprehensive pricing tiers, client testimonials, blog functionality for thought leadership content, and contact forms for lead generation\\u2014all while maintaining consistent branding and optimal performance across desktop, tablet, and mobile devices."
       >>,
       solutionTitle |-> "The Solution",
       solutionDescription |-> <<
         "Built with Next.js 16 and TypeScript, leveraging the App Router architecture for optimal performance and SEO capabilities. Implemented a component-based architecture with dedicated page sections for hero, about, benefits, features, core capabilities, pricing, testimonials, blog preview, and call-to-action modules. Created seven distinct pages (Home, About, Features, Pricing, Blog, Blog Detail, Contact) with consistent navigation and footer components.",
         "Designed a modular component system with reusable elements across landing, feature, pricing, blog, and contact sections. Implemented responsive layouts using Tailwind CSS for consistent styling and mobile-first design principles. Created three-tier pricing structure (Starter, Growth, Scale plans) with detailed feature comparisons, animated scroll effects for enhanced user engagement, and optimized image carousels showcasing platform capabilities. Deployed on Netlify for reliable hosting with continuous deployment integration."
       >>,
       closingImage |-> createHeroImage("/Coreva/work/footerimage.png", "Corevia Platform Final Product"),
       externalLink |-> "https://corevias.netlify.app/"
     ]],
    [key |-> "landscapo-architecture-platform",
     value |-> [
       id |-> "landscapo-architecture-platform",
       title |-> "Landscapo Architecture & Design Platform",
       description |-> "Professional architecture portfolio website showcasing innovative design solutions with comprehensive project galleries and service offerings.",
       category |-> "products",
       thumbnailImage |-> "/Landscape/landscapo-logo.svg",
       heroImage |-> createHeroImage("/Landscape/work/Hero.png", "Landscapo Architecture Platform Hero"),
       secondaryImage |-> createSecondaryImage("/Landscape/work/Secondary.png", "Landscapo Project Showcase Interface"),
       about |-> [
         client |-> "Landscapo Architecture Studio",
         contribution |-> "Full-Stack Development, UI/UX Implementation, Animation Integration",
         year |-> "2024"
       ],
       fullDescription |-> "A comprehensive architecture and design portfolio platform built for Landscapo Studio, featuring dynamic project galleries across multiple categories including Urban, Interior, Corporate, and Residential designs. The platform showcases over 50 completed projects with detailed case studies, expert team profiles, and service offerings. Built with modern web technologies including Next.js and Framer Motion to deliver smooth animations and seamless user experience across all devices, highlighting the studio's expertise in innovative architectural solutions and sustainable design practices.",
       processImage |-> createSecondaryImage("/Landscape/work/Processing.png", "Landscapo Development Process"),
       problemTitle |-> "The Challenge",
       problemDescription |-> <<
         "Landscapo Architecture Studio needed a sophisticated digital platform to showcase their extensive portfolio of architectural projects and establish their brand presence in the competitive architecture and design market. The challenge was to create a visually stunning, multi-page website that could effectively present complex architectural concepts, project galleries, and design philosophies while maintaining fast load times and smooth interactions. The platform needed to serve diverse audiences including potential clients, industry partners, and design enthusiasts.",
         "The website required seamless presentation of project portfolios across multiple categories (Urban, Interior, Corporate, Residential) with high-quality imagery, detailed project specifications, and interactive galleries. Additionally, the platform needed to communicate the studio's impressive metrics\\u201450+ completed projects, 100+ expert team members, and $3.5M in project value\\u2014while incorporating engaging animations, FAQ sections for client inquiries, and clear service descriptions. All of this needed to work flawlessly across desktop, tablet, and mobile devices with intuitive navigation and fast performance."
       >>,
       solutionTitle |-> "The Solution",
       solutionDescription |-> <<
         "Built with Next.js 14 and TypeScript, leveraging the App Router architecture for optimal performance and SEO capabilities. Implemented Framer Motion for sophisticated scroll-triggered animations and smooth page transitions that enhance the visual storytelling of architectural projects. Created a component-based architecture with dedicated sections for hero presentations, metrics showcase, project galleries, experience highlights, FAQ modules, and call-to-action components. Developed dynamic routing for individual project pages with detailed property information, overview sections, and image galleries.",
         "Designed a modular component system with reusable elements across landing, project, service, about, and contact sections. Implemented responsive layouts using Tailwind CSS for consistent styling and mobile-first design principles. Created an intuitive project categorization system (Urbano, Interior, Corporate) with filtering capabilities and smooth transitions between views. Integrated interactive FAQ accordion components, animated metric counters, and optimized image carousels showcasing architectural designs. Deployed on Netlify for reliable hosting with continuous deployment integration and optimal asset delivery."
       >>,
       closingImage |-> createHeroImage("/Landscape/work/Footer.png", "Landscapo Platform Final Product"),
       externalLink |-> "https://landscapo.netlify.app/"
     ]],
    [key |-> "stayli-vacation-rental-platform",
     value |-> [
       id |-> "stayli-vacation-rental-platform",
       title |-> "Stayli Vacation Rental Platform",
       description |-> "Modern vacation rental marketplace connecting travelers with extraordinary stays worldwide, featuring property listings and seamless booking experience.",
       category |-> "products",
       thumbnailImage |-> "https://cdn.prod.website-files.com/6811ad3e11282304843a1ca2/6811ad3e11282304843a1e18_stayli-black-logo.svg",
       heroImage |-> createHeroImage("/Realestate/work/Hero.png", "Stayli Platform Hero"),
       secondaryImage |-> createSecondaryImage("/Realestate/work/secondary.png", "Stayli Property Listings Interface"),
       about |-> [
         client |-> "Stayli",
         contribution |-> "Full-Stack Development, UI/UX Implementation, Dynamic Routing",
         year |-> "2024"
       ],
       fullDescription |-> "A comprehensive vacation rental platform built for Stayli, featuring multiple pages including Home, About, Listings, Property Details, and Contact. The platform showcases curated vacation rentals ranging from urban lofts to beachfront villas, mountain cabins, and luxury suites. Built with Next.js App Router architecture to deliver dynamic property browsing, detailed listing pages with image galleries, amenity showcases, and integrated booking forms. The platform serves diverse travelers seeking budget-friendly options to high-end luxury retreats with intuitive search and filtering capabilities.",
       processImage |-> createSecondaryImage("/Realestate/work/Processing.png", "Stayli Development Process"),
       problemTitle |-> "The Challenge",
       problemDescription |-> <<
         "Stayli needed a digital marketplace to bridge the gap between travelers seeking unique accommodations and property owners offering exceptional stays. The challenge was to create a scalable platform that could effectively showcase diverse property types\\u2014from $95 mountain cabins to $210 beachfront suites\\u2014while maintaining consistent user experience across property categories. The platform needed to handle dynamic routing for individual property pages, support multiple property attributes (bedrooms, guests, pricing, ratings), and present complex information in an accessible format.",
         "The website required clear presentation of property features including high-quality image galleries, detailed amenities lists, room type variations, location information, and guest reviews. Additionally, the platform needed FAQ sections for customer support, testimonial displays for social proof, destination exploration features, and contact forms for inquiries\\u2014all while maintaining optimal performance with image optimization, responsive design across all devices, and SEO-friendly architecture for property discoverability."
       >>,
       solutionTitle |-> "The Solution",
       solutionDescription |-> <<
         "Built with Next.js 14 and TypeScript, leveraging the App Router with dynamic routing patterns ([slug]) for scalable property detail pages. Implemented a robust data architecture using TypeScript interfaces for type-safe property management, including PropertyImage, PropertyAmenity, and Property models with comprehensive attributes (pricing, ratings, reviews, features, amenities). Created five core pages (Home, About, Listings, Property Detail, Contact) with dedicated component architecture for landing sections, listing displays, and property showcases.",
         "Designed a modular component system with reusable elements across hero sections, destination cards, testimonial displays, FAQ accordions, and call-to-action modules. Implemented responsive image handling with srcSet and sizes attributes for optimal loading performance across devices. Created dynamic property filtering by location, floor, size, and bedrooms with real-time search capabilities. Integrated property rating system (5-star reviews), discount badges, and multi-image carousels for property galleries. Deployed on Netlify with continuous deployment, achieving fast load times and seamless navigation between property listings and detail pages."
       >>,
       closingImage |-> createHeroImage("/Realestate/work/Footer.png", "Stayli Platform Final Product"),
       externalLink |-> "https://realsttate.netlify.app/"
     ]],
    [key |-> "elev8-rwanda-website",
     value |-> [
       id |-> "elev8-rwanda-website",
       title |-> "Elev8 Rwanda Corporate Website",
       description |-> "Multi-brand corporate website with CMS integration and internationalization.",
       category |-> "products",
       thumbnailImage |-> "/Elev8/Elev8-logo-dark.svg",
       heroImage |-> createHeroImage("/Elev8/work/Heroimage.png", "Elev8 Rwanda Website Hero"),
       secondaryImage |-> createSecondaryImage("/Elev8/work/secondaryImage.png", "Elev8 Rwanda Multi-Brand Interface"),
       about |-> [
         client |-> "Elev8 Rwanda",
         contribution |-> "Full-Stack Development, UI/UX Design, CMS Integration",
         year |-> "2024"
       ],
       fullDescription |-> "A comprehensive corporate website built for Elev8 Rwanda, featuring two distinct sub-brands: Elev8 Media (digital marketing and media production) and Elev8 Moments (event planning and management). The platform integrates Sanity CMS for dynamic content management, supports three languages (English, French, Arabic), and includes a complete blog system with category filtering and detailed post pages.",
       processImage |-> createSecondaryImage("/Elev8/work/processimage.png", "Elev8 Development Process"),
       problemTitle |-> "The Challenge",
       problemDescription |-> <<
         "Elev8 Rwanda needed a unified digital presence that could effectively showcase two distinct sub-brands while maintaining a cohesive corporate identity. The challenge was to create a scalable platform that could handle multilingual content, dynamic service offerings, and portfolio showcases for both media production and event management services.",
         "The website needed to serve multiple audiences: potential clients seeking media services, event planning customers, blog readers, and business partners. Additionally, the content team required an intuitive CMS to manage services, team members, testimonials, blog posts, and brand-specific portfolios without technical knowledge."
       >>,
       solutionTitle |-> "The Solution",
       solutionDescription |-> <<
         "Built with Next.js 14 and TypeScript, leveraging App Router for optimal performance and SEO. Integrated Sanity CMS with custom schema types for flexible content management across home pages, services, brands, team members, testimonials, and blog posts. Implemented a robust internationalization system supporting English, French, and Arabic with locale-specific routing.",
         "Designed a modular component architecture with 12+ reusable home sections including hero, services, stats, testimonials, team showcase, blog preview, and newsletter subscription. Created dedicated brand pages for Elev8 Media and Elev8 Moments with unique service packages, portfolio galleries, and event type showcases. Implemented dark mode support with next-themes and built a comprehensive UI component library using Radix UI and Tailwind CSS for consistent design across all pages."
       >>,
       closingImage |-> createHeroImage("/Elev8/work/ClosingImage.png", "Elev8 Rwanda Final Product"),
       externalLink |-> "https://www.elev8rwanda.com/en"
     ]],
    [key |-> "elev8-moments-event-design",
     value |-> [
       id |-> "elev8-moments-event-design",
       title |-> "Elev8 Moments - Event Design Platform",
       description |-> "Full-service event design and workshop platform for creating intentional, memorable experiences.",
       category |-> "products",
       thumbnailImage |-> "/Elev8-Moments/Elev8-logo-moment-dark.svg",
       heroImage |-> createHeroImage("/Elev8-Moments/work/hero%20image.png", "Elev8 Moments Event Design Platform"),
       secondaryImage |-> createSecondaryImage("/Elev8-Moments/work/secondary%20image.png", "Event Design Gallery View"),
       about |-> [
         client |-> "Elev8 Moments",
         contribution |-> "Full-Stack Development, UI/UX Design, Brand Integration",
         year |-> "2024"
       ],
       fullDescription |-> "Elev8 Moments is a comprehensive digital platform designed to showcase and manage premium event design services, creative workshops, and thoughtful gifting solutions. The platform serves as both a portfolio and booking system for clients seeking intentionally curated experiences that foster connection, celebration, and meaningful moments.",
       processImage |-> createSecondaryImage("/Elev8-Moments/work/process%20image.png", "Development Process"),
       problemTitle |-> "The Challenge",
       problemDescription |-> <<
         "Event design businesses often struggle to effectively showcase their diverse service offerings\\u2014from event setup and d\\u00e9cor to creative workshops and corporate gifting\\u2014in a cohesive digital experience. Traditional websites fail to capture the emotional essence and attention to detail that defines premium event services.",
         "The client needed a platform that could elegantly present multiple service categories (Event Design, Experiences & Workshops, Thoughtful Gifting) while maintaining a luxurious, intentional brand identity. The challenge was creating an intuitive navigation system that guides visitors through various offerings without overwhelming them, while also showcasing a dynamic image gallery that demonstrates the quality and creativity of their work."
       >>,
       solutionTitle |-> "The Solution",
       solutionDescription |-> <<
         "Built with Next.js 14 and TypeScript, the platform leverages modern React patterns and server-side rendering for optimal performance and SEO. The architecture features a modular component system with dedicated route sections for each service category, ensuring scalability and maintainability as the business grows.",
         "The design system implements a sophisticated color palette (#F9F2EC cream and #1E1E1E charcoal) with custom typography (NoirEtBlanc for headings, Montserrat for subheadings, Raleway for body text) that reinforces the brand's elegant, intentional aesthetic. Responsive layouts adapt seamlessly across devices, with carefully crafted grid systems that showcase imagery while maintaining readability. The shared Gallery component provides a unified visual experience across pages, while dedicated sections for Event Setup & Decor, Tablescapes, Florals, and Seasonal offerings allow visitors to explore specific services in depth. Interactive elements include smooth hover transitions, optimized Next.js Image components for fast loading, and strategic call-to-action placements that guide users toward booking inquiries."
       >>,
       closingImage |-> createHeroImage("/Elev8-Moments/work/closing%20image.png", "Final Platform Experience"),
       externalLink |-> "https://moments.elev8rwanda.com/"
     ]]
  >>

----------------------------------------------------------------------------
(* Property reads on the catalog object *)

OwnKeys(obj) == {obj[i].key : i \in DOMAIN obj}

\* Object.prototype, the prototype of every object literal
ObjectPrototypeRef == [type |-> "object", name |-> "Object.prototype"]

\* The data properties of Object.prototype, which every object literal
\* inherits: each is a built-in function.  Its one accessor property,
\* __proto__, has no value of its own and is read in Inherited.
ObjectPrototype ==
  [k \in {"constructor", "__defineGetter__", "__defineSetter__", "hasOwnProperty",
          "__lookupGetter__", "__lookupSetter__", "isPrototypeOf",
          "propertyIsEnumerable", "toString", "valueOf", "toLocaleString"} |->
     [type |-> "function", name |-> k]]

\* The part of a property read on an object that continues on its prototype
\* proto, the object read staying the receiver.  proto is Object.prototype or
\* a plain object (a record) whose own prototype is Object.prototype.  A field
\* of the plain object is found first; then the accessor __proto__ of
\* Object.prototype, whose getter runs on the receiver and gives the
\* receiver's prototype, proto; then the functions of Object.prototype.
Inherited(proto, key) ==
  IF proto # ObjectPrototypeRef /\ key \in DOMAIN proto
    THEN proto[key]
    ELSE IF key = "__proto__"
      THEN proto
      ELSE IF key \in DOMAIN ObjectPrototype
        THEN ObjectPrototype[key]
        ELSE Undefined

\* obj[key] for an object with own properties obj and prototype proto: the
\* own property, else the read continues on the prototype
Get(obj, proto, key) ==
  IF key \in OwnKeys(obj)
    THEN obj[CHOOSE i \in DOMAIN obj : obj[i].key = key].value
    ELSE Inherited(proto, key)

----------------------------------------------------------------------------
(* Query layer *)

\* Object.values(workDetailsData)
getAllWorks == [i \in DOMAIN workDetailsData |-> workDetailsData[i].value]

\* faulty variant: the filter keeps the works of the other categories
getWorksByCategoryNegated(category) ==
  SelectSeq(getAllWorks, LAMBDA work : work.category # category)

\* faulty variant: the filter stops at the first work of the category
getWorksByCategoryFirstOnly(category) ==
  LET all == SelectSeq(getAllWorks, LAMBDA work : work.category = category)
  IN  IF all = <<>> THEN <<>> ELSE <<all[1]>>

getWorksByCategory(category) ==
  SelectSeq(getAllWorks, LAMBDA work : work.category = category)

getProductsData == getWorksByCategory("products")

getUIUXData == getWorksByCategory("uiux")

get3DData == getWorksByCategory("3d")

\* faulty variant: the lookup goes through the values and takes the first whose id differs
getWorkBySlugFindOther(slug) ==
  IF \E i \in DOMAIN getAllWorks : getAllWorks[i].id # slug
    THEN getAllWorks[CHOOSE i \in DOMAIN getAllWorks :
                       /\ getAllWorks[i].id # slug
                       /\ \A j \in 1..(i - 1) : getAllWorks[j].id = slug]
    ELSE Undefined

getWorkBySlug(slug) == Get(workDetailsData, prototype, slug)

\* faulty variant: the slugs come out in reverse order
getAllWorkSlugsReversed ==
  [i \in DOMAIN workDetailsData |->
     workDetailsData[Len(workDetailsData) + 1 - i].key]

\* Object.keys(workDetailsData)
getAllWorkSlugs == [i \in DOMAIN workDetailsData |-> workDetailsData[i].key]

\* faulty variant: the summary takes the hero image instead of the thumbnail
worksDataOfHero(works) ==
  [i \in DOMAIN works |->
     [id |-> works[i].id,
      title |-> works[i].title,
      description |-> works[i].description,
      image |-> works[i].heroImage.src]]

\* works.map(work => ({ id, title, description, image: work.thumbnailImage }))
worksDataOf(works) ==
  [i \in DOMAIN works |->
     [id |-> works[i].id,
      title |-> works[i].title,
      description |-> works[i].description,
      image |-> works[i].thumbnailImage]]

----------------------------------------------------------------------------
(* Inputs *)

\* the category type of the source, and one value outside it
Categories == {"products", "uiux", "3d", "branding"}

\* the catalog's keys, and strings that are no key of it
Slugs ==
  OwnKeys(workDetailsDataLiteral)
    \cup {"does-not-exist", "", "constructor", "toString", "__proto__"}

SrcAlphabet == {"a", "/", ",", " ", "?"}

RECURSIVE StringsUpTo(_)
StringsUpTo(n) ==
  IF n = 0
    THEN {""}
    ELSE LET shorter == StringsUpTo(n - 1)
         IN  shorter \cup {s \o c : s \in shorter, c \in SrcAlphabet}

\* the image sources the catalog literal uses
CatalogSources ==
  UNION {{e.value.heroImage.src, e.value.secondaryImage.src,
          e.value.processImage.src, e.value.closingImage.src} :
           e \in Range(workDetailsDataLiteral)}

Sources == StringsUpTo(MaxSrcLen) \cup CatalogSources

----------------------------------------------------------------------------
(* State machine: module load, then calls of the exported functions *)

Init ==
  /\ workDetailsData = workDetailsDataLiteral
  /\ prototype = ObjectPrototypeRef
  /\ worksData = worksDataOf(getAllWorks)
  /\ calls = <<>>

Call(op, args, result) == [op |-> op, args |-> args, result |-> result]

\* a query: it returns its result and writes nothing
Query(op, args, result) ==
  /\ Len(calls) < MaxCalls
  /\ calls' = Append(calls, Call(op, args, result))
  /\ UNCHANGED <<workDetailsData, prototype, worksData>>

CallGetAllWorks == Query("getAllWorks", <<>>, getAllWorks)

\* faulty variant: the filter is done in place, deleting the other keys from the catalog
CallGetWorksByCategoryInPlace(category) ==
  /\ Len(calls) < MaxCalls
  /\ calls' = Append(calls, Call("getWorksByCategory", <<category>>,
                                 getWorksByCategory(category)))
  /\ workDetailsData' =
       SelectSeq(workDetailsData, LAMBDA e : e.value.category = category)
  /\ UNCHANGED <<prototype, worksData>>

CallGetWorksByCategory(category) ==
  Query("getWorksByCategory", <<category>>, getWorksByCategory(category))

CallGetProductsData == Query("getProductsData", <<>>, getProductsData)

CallGetUIUXData == Query("getUIUXData", <<>>, getUIUXData)

CallGet3DData == Query("get3DData", <<>>, get3DData)

CallGetWorkBySlug(slug) == Query("getWorkBySlug", <<slug>>, getWorkBySlug(slug))

CallGetAllWorkSlugs == Query("getAllWorkSlugs", <<>>, getAllWorkSlugs)

\* faulty variant: the reader reverses the exported array in place before using it
ReadWorksDataReversing ==
  LET reversed == [i \in DOMAIN worksData |-> worksData[Len(worksData) + 1 - i]]
  IN  /\ Len(calls) < MaxCalls
      /\ calls' = Append(calls, Call("worksData", <<>>, reversed))
      /\ worksData' = reversed
      /\ UNCHANGED <<workDetailsData, prototype>>

\* faulty variant: worksData is recomputed from the catalog on every read
ReadWorksDataLive == Query("worksData", <<>>, worksDataOf(getAllWorks))

\* a read of the exported worksData
ReadWorksData == Query("worksData", <<>>, worksData)

Next ==
  \/ CallGetAllWorks
  \/ \E category \in Categories : CallGetWorksByCategory(category)
  \/ CallGetProductsData
  \/ CallGetUIUXData
  \/ CallGet3DData
  \/ \E slug \in Slugs : CallGetWorkBySlug(slug)
  \/ CallGetAllWorkSlugs
  \/ ReadWorksData

Spec == Init /\ [][Next]_vars

\* generateSrcSet applied once to a source string
CallGenerateSrcSet(src) ==
  /\ calls = <<>>
  /\ calls' = <<Call("generateSrcSet", <<src>>, generateSrcSet(src))>>
  /\ UNCHANGED <<workDetailsData, prototype, worksData>>

NextSrcSet == \E src \in Sources : CallGenerateSrcSet(src)

SpecSrcSet == Init /\ [][NextSrcSet]_vars

\* alt texts: empty, plain, and one holding a comma
Alts == {"", "Alt text", "Hero, closing"}

\* width and height arguments: omitted, NaN, zero, and numbers that are truthy
Dims == {Undefined, NaN, Num(0), Num(1), Num(2400), Num(-1)}

\* one of the image builders applied once
CallBuilder(op, args, result) ==
  /\ calls = <<>>
  /\ calls' = <<Call(op, args, result)>>
  /\ UNCHANGED <<workDetailsData, prototype, worksData>>

CallCreateWorkImage(src, alt, width, height) ==
  CallBuilder("createWorkImage", <<src, alt, width, height>>,
              createWorkImage(src, alt, width, height))

CallCreateHeroImage(src, alt) ==
  CallBuilder("createHeroImage", <<src, alt>>, createHeroImage(src, alt))

CallCreateSecondaryImage(src, alt) ==
  CallBuilder("createSecondaryImage", <<src, alt>>, createSecondaryImage(src, alt))

NextImage ==
  \/ /\ calls = <<>>
     /\ \E src \in Sources, alt \in Alts : CallCreateHeroImage(src, alt)
  \/ /\ calls = <<>>
     /\ \E src \in Sources, alt \in Alts : CallCreateSecondaryImage(src, alt)
  \/ /\ calls = <<>>
     /\ \E src \in Sources, alt \in Alts, width \in Dims, height \in Dims :
          CallCreateWorkImage(src, alt, width, height)

SpecImage == Init /\ [][NextImage]_vars

----------------------------------------------------------------------------
(* Writes to the exported catalog object after load.  workDetailsData is a
   const binding of a plain object: a module that imports it can assign,
   delete and change its properties. *)

Digits == {"0", "1", "2", "3", "4", "5", "6", "7", "8", "9"}

DigitValue(d) ==
  CASE d = "0" -> 0 [] d = "1" -> 1 [] d = "2" -> 2 [] d = "3" -> 3 [] d = "4" -> 4
    [] d = "5" -> 5 [] d = "6" -> 6 [] d = "7" -> 7 [] d = "8" -> 8 [] d = "9" -> 9

\* a canonical decimal numeral: digits only, no leading zero except "0"
IsCanonicalNumeral(key) ==
  /\ Len(key) > 0
  /\ \A i \in 1..Len(key) : SubSeq(key, i, i) \in Digits
  /\ Len(key) > 1 => SubSeq(key, 1, 1) # "0"

\* a < b for canonical numerals, compared by length and then digit by digit
\* (the values go beyond the integers of the model checker)
NumeralLess(a, b) ==
  \/ Len(a) < Len(b)
  \/ /\ Len(a) = Len(b)
     /\ \E i \in 1..Len(a) :
          /\ SubSeq(a, 1, i - 1) = SubSeq(b, 1, i - 1)
          /\ DigitValue(SubSeq(a, i, i)) < DigitValue(SubSeq(b, i, i))

\* the largest array index, 2^32 - 2
MaxArrayIndex == "4294967294"

\* an array-index key: a canonical numeral of value at most 2^32 - 2; a
\* larger numeral is an ordinary string key
IsIndexKey(key) ==
  /\ IsCanonicalNumeral(key)
  /\ key = MaxArrayIndex \/ NumeralLess(key, MaxArrayIndex)

\* the own properties after obj[key] = value, for an object whose prototype
\* chain ends in Object.prototype: an own property keeps its place; the key
\* "__proto__" runs the inherited setter and makes no own property; a new
\* array-index key goes among the index keys in ascending order, ahead of
\* the string keys; any other new key goes last
Set(obj, key, value) ==
  IF key \in OwnKeys(obj)
    THEN [i \in DOMAIN obj |->
            IF obj[i].key = key THEN [key |-> key, value |-> value] ELSE obj[i]]
    ELSE IF key = "__proto__"
      THEN obj
      ELSE IF IsIndexKey(key)
        THEN LET ahead == {i \in DOMAIN obj :
                             /\ IsIndexKey(obj[i].key)
                             /\ NumeralLess(obj[i].key, key)}
                 n == Cardinality(ahead)
             IN  SubSeq(obj, 1, n) \o <<[key |-> key, value |-> value]>>
                   \o SubSeq(obj, n + 1, Len(obj))
        ELSE Append(obj, [key |-> key, value |-> value])

\* the prototype after obj[key] = value, value an object: the inherited
\* setter of "__proto__" makes value the prototype, unless "__proto__" is
\* an own property
SetPrototype(obj, proto, key, value) ==
  IF key = "__proto__" /\ key \notin OwnKeys(obj) THEN value ELSE proto

\* delete obj[key]
Delete(obj, key) == SelectSeq(obj, LAMBDA e : e.key # key)

\* a project an importer stores under a key
NewWork(key) ==
  [workDetailsDataLiteral[1].value EXCEPT
     !.id = key, !.title = "New Project", !.thumbnailImage = "/new/logo.svg"]

\* keys written or deleted: a new slug, a new array-index key, two catalog keys
WrittenKeys ==
  {"new-project", "7", "corevia-financial-platform", "elev8-moments-event-design"}

\* keys assigned: those, a numeral too large for an array index, and the
\* name of the prototype accessor
AssignedKeys == WrittenKeys \cup {"4294967295", "__proto__"}

\* slugs looked up: those, and the name of a property of a project
QueriedSlugs == AssignedKeys \cup {"title"}

\* a write: it returns nothing and leaves the exported worksData alone
Write(op, args, store, proto) ==
  /\ Len(calls) < MaxCalls
  /\ calls' = Append(calls, Call(op, args, Undefined))
  /\ workDetailsData' = store
  /\ prototype' = proto
  /\ UNCHANGED worksData

\* workDetailsData[key] = work
AssignWork(key, work) ==
  Write("assign", <<key, work>>, Set(workDetailsData, key, work),
        SetPrototype(workDetailsData, prototype, key, work))

\* delete workDetailsData[key]
DeleteWork(key) ==
  Write("delete", <<key>>, Delete(workDetailsData, key), prototype)

\* workDetailsData[key].title = title, for a key the catalog holds
SetTitle(key, title) ==
  /\ key \in OwnKeys(workDetailsData)
  /\ Write("title", <<key, title>>,
           Set(workDetailsData, key,
               [Get(workDetailsData, prototype, key) EXCEPT !.title = title]),
           prototype)

\* workDetailsData[key].thumbnailImage = url, for a key the catalog holds
SetThumbnailImage(key, url) ==
  /\ key \in OwnKeys(workDetailsData)
  /\ Write("thumbnailImage", <<key, url>>,
           Set(workDetailsData, key,
               [Get(workDetailsData, prototype, key) EXCEPT !.thumbnailImage = url]),
           prototype)

NextMutate ==
  \/ \E key \in AssignedKeys : AssignWork(key, NewWork(key))
  \/ \E key \in WrittenKeys : DeleteWork(key)
  \/ \E key \in WrittenKeys : SetTitle(key, "Renamed Project")
  \/ \E key \in WrittenKeys : SetThumbnailImage(key, "/renamed/logo.svg")
  \/ CallGetAllWorks
  \/ \E slug \in QueriedSlugs : CallGetWorkBySlug(slug)
  \/ CallGetAllWorkSlugs
  \/ ReadWorksData

SpecMutate == Init /\ [][NextMutate]_vars

----------------------------------------------------------------------------
(* Helpers of the properties *)

StoredWorks == Range(getAllWorks)

\* the indices of the logged calls of op
CallsOf(op) == {i \in DOMAIN calls : calls[i].op = op}

\* the k-th smallest element of a finite set of integers
Nth(P, k) == CHOOSE i \in P : Cardinality({j \in P : j <= i}) = k

\* the works of a category, by position in getAllWorks, lowest position first
WorksAtCategory(category) ==
  LET P == {i \in DOMAIN getAllWorks : getAllWorks[i].category = category}
  IN  [k \in 1..Cardinality(P) |-> getAllWorks[Nth(P, k)]]

\* s.split(sep) for a one-character separator: the pieces between the
\* occurrences of sep, one more than there are occurrences
Split(s, sep) ==
  LET P == {i \in 1..Len(s) : SubSeq(s, i, i) = sep}
      n == Cardinality(P)
      cut(k) == IF k = 0 THEN 0 ELSE IF k = n + 1 THEN Len(s) + 1 ELSE Nth(P, k)
  IN  [k \in 1..(n + 1) |-> SubSeq(s, cut(k - 1) + 1, cut(k) - 1)]

CountOf(s, ch) == Cardinality({i \in 1..Len(s) : SubSeq(s, i, i) = ch})

\* the five entries the srcSet of a source is said to hold
ExpectedEntries(src) ==
  <<src \o "?scale-down-to=512 512w",
    src \o "?scale-down-to=1024 1024w",
    src \o "?scale-down-to=2048 2048w",
    src \o "?scale-down-to=4096 4096w",
    src \o " 4500w">>

JoinWithCommas(entries) ==
  entries[1] \o "," \o entries[2] \o "," \o entries[3] \o "," \o entries[4]
             \o "," \o entries[5]

----------------------------------------------------------------------------
(* Properties *)

\* C1: getWorkBySlug(s) is undefined for every string s that is not a key of
\* the catalog, whatever the string ("does-not-exist", "", "constructor",
\* "toString", "__proto__").  Fails: a name Object.prototype defines is read
\* through the prototype chain.
C1_UnknownSlugIsUndefined ==
  \A i \in CallsOf("getWorkBySlug") :
    calls[i].args[1] \notin OwnKeys(workDetailsData)
      => calls[i].result = Undefined

\* C2: for every key k of the catalog, getWorkBySlug(k) is the project stored
\* under k and its id is k; the project under "corevia-financial-platform" has
\* category "products" and externalLink "https://corevias.netlify.app/".
C2_SlugLookupReturnsItsProject ==
  /\ \A i \in DOMAIN workDetailsData :
       /\ getWorkBySlug(workDetailsData[i].key) = workDetailsData[i].value
       /\ getWorkBySlug(workDetailsData[i].key).id = workDetailsData[i].key
  /\ \A i \in CallsOf("getWorkBySlug") :
       calls[i].args[1] \in OwnKeys(workDetailsData)
         => /\ calls[i].result \in StoredWorks
            /\ calls[i].result.id = calls[i].args[1]
  /\ getWorkBySlug("corevia-financial-platform").category = "products"
  /\ getWorkBySlug("corevia-financial-platform").externalLink
       = "https://corevias.netlify.app/"

C2_Witness ==
  \E i \in CallsOf("getWorkBySlug") :
    /\ calls[i].args = <<"corevia-financial-platform">>
    /\ calls[i].result.id = "corevia-financial-platform"
    /\ calls[i].result.category = "products"
    /\ calls[i].result.externalLink = "https://corevias.netlify.app/"

\* C3: every element of getWorksByCategory(c) has category c, for c among
\* products, uiux and 3d; getProductsData, getUIUXData and get3DData are
\* pairwise disjoint, their union is the set of the projects of getAllWorks,
\* and every project occurs exactly once in the three lists together.
C3_CategoryListsPartition ==
  LET lists == [c \in {"products", "uiux", "3d"} |->
                  CASE c = "products" -> getProductsData
                    [] c = "uiux" -> getUIUXData
                    [] c = "3d" -> get3DData]
  IN  /\ \A c \in DOMAIN lists :
           /\ lists[c] = getWorksByCategory(c)
           /\ \A i \in DOMAIN lists[c] : lists[c][i].category = c
      /\ \A c, d \in DOMAIN lists :
           c # d => Range(lists[c]) \cap Range(lists[d]) = {}
      /\ UNION {Range(lists[c]) : c \in DOMAIN lists} = StoredWorks
      /\ \A w \in StoredWorks :
           Cardinality({p \in (DOMAIN lists) \X (DOMAIN getAllWorks) :
                          /\ p[2] \in DOMAIN lists[p[1]]
                          /\ lists[p[1]][p[2]] = w}) = 1
      /\ \A i \in CallsOf("getWorksByCategory") :
           \A k \in DOMAIN calls[i].result :
             calls[i].result[k].category = calls[i].args[1]

C3_Witness ==
  /\ \E i \in CallsOf("getProductsData") :
       /\ calls[i].result # <<>>
       /\ \A k \in DOMAIN calls[i].result :
            calls[i].result[k].category = "products"
  /\ \E i \in CallsOf("getUIUXData") :
       Range(calls[i].result) \cap Range(getProductsData) = {}

\* C4: getAllWorks returns one project per catalog key in insertion order,
\* getAllWorkSlugs returns the keys in that order, the two have the length of
\* the key set, and getAllWorkSlugs is the sequence of the ids of getAllWorks.
C4_AllWorksFollowKeys ==
  /\ Len(getAllWorks) = Cardinality(OwnKeys(workDetailsData))
  /\ Len(getAllWorkSlugs) = Len(getAllWorks)
  /\ \A i \in DOMAIN getAllWorks :
       /\ getAllWorks[i] = getWorkBySlug(getAllWorkSlugs[i])
       /\ getAllWorkSlugs[i] = getAllWorks[i].id
  /\ \A i, j \in DOMAIN getAllWorkSlugs :
       i # j => getAllWorkSlugs[i] # getAllWorkSlugs[j]
  /\ \A i \in CallsOf("getAllWorks") : \A j \in CallsOf("getAllWorkSlugs") :
       calls[j].result = [k \in DOMAIN calls[i].result |-> calls[i].result[k].id]

C4_Witness ==
  \E i \in CallsOf("getAllWorks") : \E j \in CallsOf("getAllWorkSlugs") :
    /\ Len(calls[i].result) = Cardinality(OwnKeys(workDetailsData))
    /\ Len(calls[i].result) > 1
    /\ calls[j].result = [k \in DOMAIN calls[i].result |-> calls[i].result[k].id]
    /\ calls[j].result[1] = "corevia-financial-platform"

\* C5 as stated: for every source, split at its commas generateSrcSet(source)
\* is exactly the five entries source?scale-down-to=W Ww for W = 512, 1024,
\* 2048, 4096 and source 4500w.  Fails for a source that holds a comma.
C5_FiveCommaSeparatedEntries ==
  \A i \in CallsOf("generateSrcSet") :
    Split(calls[i].result, ",") = ExpectedEntries(calls[i].args[1])

\* C5 amended: generateSrcSet(source) is the five entries joined by commas in
\* that order; split at commas it has 5 * (1 + n) pieces, n the number of
\* commas in source, and for a source without a comma the pieces are exactly
\* the five entries (a space or a '?' in source changes nothing).
C5_FiveEntriesJoined ==
  \A i \in CallsOf("generateSrcSet") :
    LET src == calls[i].args[1]
        pieces == Split(calls[i].result, ",")
    IN  /\ calls[i].result = JoinWithCommas(ExpectedEntries(src))
        /\ Len(pieces) = 5 * (1 + CountOf(src, ","))
        /\ CountOf(src, ",") = 0 => pieces = ExpectedEntries(src)

C5_Witness ==
  \E i \in CallsOf("generateSrcSet") :
    /\ calls[i].args[1] = "a,?"
    /\ Len(Split(calls[i].result, ",")) = 10
    /\ calls[i].result = JoinWithCommas(ExpectedEntries("a,?"))

\* C6: worksData has one entry per catalog project in the order of
\* getAllWorks, and its i-th entry has exactly the fields id, title,
\* description and image, equal to the id, title, description and
\* thumbnailImage of the i-th project.
C6_SummariesMirrorCatalog ==
  /\ Len(worksData) = Len(getAllWorks)
  /\ \A i \in DOMAIN worksData :
       /\ DOMAIN worksData[i] = {"id", "title", "description", "image"}
       /\ worksData[i].id = getAllWorks[i].id
       /\ worksData[i].title = getAllWorks[i].title
       /\ worksData[i].description = getAllWorks[i].description
       /\ worksData[i].image = getAllWorks[i].thumbnailImage
  /\ \A i \in CallsOf("worksData") :
       \A k \in DOMAIN calls[i].result :
         calls[i].result[k].id = "stayli-vacation-rental-platform"
           => calls[i].result[k].image
                = getWorkBySlug("stayli-vacation-rental-platform").thumbnailImage

C6_Witness ==
  \E i \in CallsOf("worksData") :
    /\ Len(calls[i].result) = Len(getAllWorks)
    /\ \E k \in DOMAIN calls[i].result :
         /\ calls[i].result[k].id = "stayli-vacation-rental-platform"
         /\ calls[i].result[k].image
              = getWorkBySlug("stayli-vacation-rental-platform").thumbnailImage
         /\ calls[i].result[k].image
              # getWorkBySlug("stayli-vacation-rental-platform").heroImage.src

\* C7: getWorksByCategory(c) is exactly the projects of getAllWorks whose
\* category is c, in their order in getAllWorks; it is the empty sequence
\* when none matches, also for a c outside products, uiux and 3d.
C7_CategoryFilterKeepsOrder ==
  /\ \A c \in Categories :
       /\ getWorksByCategory(c) = WorksAtCategory(c)
       /\ (\A w \in StoredWorks : w.category # c) => getWorksByCategory(c) = <<>>
  /\ \A i \in CallsOf("getWorksByCategory") :
       calls[i].result = WorksAtCategory(calls[i].args[1])

C7_Witness ==
  /\ \E i \in CallsOf("getWorksByCategory") :
       /\ calls[i].args = <<"products">>
       /\ Len(calls[i].result) > 1
       /\ calls[i].result = WorksAtCategory("products")
  /\ \E i \in CallsOf("getWorksByCategory") :
       /\ calls[i].args = <<"branding">>
       /\ calls[i].result = <<>>

\* C8: no query changes the catalog: after any sequence of calls of
\* getAllWorks, getWorksByCategory, getProductsData, getUIUXData, get3DData,
\* getWorkBySlug, getAllWorkSlugs and reads of worksData, the key set and
\* every project record are those of module initialization.
C8_QueriesLeaveCatalogUnchanged ==
  /\ OwnKeys(workDetailsData) = OwnKeys(workDetailsDataLiteral)
  /\ workDetailsData = workDetailsDataLiteral

C8_Witness ==
  /\ Len(calls) = MaxCalls
  /\ \E i \in CallsOf("getWorksByCategory") :
       /\ calls[i].args = <<"uiux">>
       /\ i < Len(calls)
  /\ workDetailsData = workDetailsDataLiteral

\* C9: for every project of the catalog, heroImage and closingImage have
\* width 2400 and height 1600, secondaryImage and processImage have neither
\* width nor height, and all four have srcSet = generateSrcSet(src),
\* sizes = "calc(100vw - 24px)" and a non-empty alt.
C9_CatalogImagesBuilderShaped ==
  \A w \in StoredWorks :
    /\ \A img \in {w.heroImage, w.closingImage} :
         /\ DOMAIN img = {"src", "srcSet", "alt", "width", "height", "sizes"}
         /\ img.width = 2400
         /\ img.height = 1600
    /\ \A img \in {w.secondaryImage, w.processImage} :
         /\ DOMAIN img = {"src", "srcSet", "alt", "sizes"}
         /\ "width" \notin DOMAIN img
         /\ "height" \notin DOMAIN img
    /\ \A f \in {"heroImage", "closingImage", "secondaryImage", "processImage"} :
         /\ w[f].srcSet = generateSrcSet(w[f].src)
         /\ Split(w[f].srcSet, ",") = ExpectedEntries(w[f].src)
         /\ w[f].sizes = "calc(100vw - 24px)"
         /\ w[f].alt # ""

C9_Witness ==
  \E i \in CallsOf("getWorkBySlug") :
    /\ calls[i].args = <<"elev8-moments-event-design">>
    /\ calls[i].result.heroImage.width = 2400
    /\ calls[i].result.closingImage.height = 1600
    /\ "width" \notin DOMAIN calls[i].result.secondaryImage
    /\ "height" \notin DOMAIN calls[i].result.processImage
    /\ calls[i].result.processImage.srcSet
         = generateSrcSet("/Elev8-Moments/work/process%20image.png")

\* C10: two calls of the same query with the same argument, with no change of
\* the catalog between them, return equal results.
C10_RepeatedQueryAgrees ==
  \A i, j \in DOMAIN calls :
    (calls[i].op = calls[j].op /\ calls[i].args = calls[j].args)
      => calls[i].result = calls[j].result

C10_Witness ==
  \E i, j \in DOMAIN calls :
    /\ i < j
    /\ calls[i].op = "worksData"
    /\ calls[j].op = "worksData"
    /\ calls[i].result = calls[j].result
    /\ Len(calls[i].result) > 1

\* C11: for every source and alt text, createHeroImage gives a descriptor
\* with width 2400 and height 1600, createSecondaryImage one with no width
\* and no height field; both have src = source, alt = the alt text,
\* srcSet = generateSrcSet(source) and sizes = "calc(100vw - 24px)".
C11_HeroAndSecondaryBuilders ==
  /\ \A i \in CallsOf("createHeroImage") \cup CallsOf("createSecondaryImage") :
       /\ calls[i].result.src = calls[i].args[1]
       /\ calls[i].result.alt = calls[i].args[2]
       /\ calls[i].result.srcSet = generateSrcSet(calls[i].args[1])
       /\ calls[i].result.srcSet = JoinWithCommas(ExpectedEntries(calls[i].args[1]))
       /\ calls[i].result.sizes = "calc(100vw - 24px)"
  /\ \A i \in CallsOf("createHeroImage") :
       /\ DOMAIN calls[i].result
            = {"src", "srcSet", "alt", "width", "height", "sizes"}
       /\ calls[i].result.width = 2400
       /\ calls[i].result.height = 1600
  /\ \A i \in CallsOf("createSecondaryImage") :
       DOMAIN calls[i].result = {"src", "srcSet", "alt", "sizes"}

C11_WitnessHero ==
  \E i \in CallsOf("createHeroImage") :
    /\ calls[i].args = <<"/a", "Alt text">>
    /\ calls[i].result.width = 2400
    /\ calls[i].result.height = 1600
    /\ calls[i].result.src = "/a"

C11_WitnessSecondary ==
  \E i \in CallsOf("createSecondaryImage") :
    /\ calls[i].args = <<"/a", "Alt text">>
    /\ "width" \notin DOMAIN calls[i].result
    /\ "height" \notin DOMAIN calls[i].result
    /\ calls[i].result.alt = "Alt text"

\* C12: createWorkImage puts a width field in the result exactly when width
\* was provided and is truthy, and a height field exactly when height was
\* provided and is truthy, each independently of the other; a dimension that
\* is 0 or omitted leaves its field absent, and src, srcSet, alt and sizes
\* are the same whatever the dimensions.
C12_DimensionKeptIffTruthy ==
  \A i \in CallsOf("createWorkImage") :
    LET src == calls[i].args[1]
        alt == calls[i].args[2]
        width == calls[i].args[3]
        height == calls[i].args[4]
        result == calls[i].result
        kept(d) == d.type = "number" /\ d.value # 0
    IN  /\ ("width" \in DOMAIN result) <=> kept(width)
        /\ ("height" \in DOMAIN result) <=> kept(height)
        /\ kept(width) => result.width = width.value
        /\ kept(height) => result.height = height.value
        /\ (width \in {Undefined, Num(0)}) => "width" \notin DOMAIN result
        /\ (height \in {Undefined, Num(0)}) => "height" \notin DOMAIN result
        /\ DOMAIN result \ {"width", "height"} = {"src", "srcSet", "alt", "sizes"}
        /\ result.src = src
        /\ result.srcSet = JoinWithCommas(ExpectedEntries(src))
        /\ result.alt = alt
        /\ result.sizes = "calc(100vw - 24px)"

C12_Witness ==
  \E i \in CallsOf("createWorkImage") :
    /\ calls[i].args = <<"/a", "Alt text", Num(0), Num(2400)>>
    /\ DOMAIN calls[i].result = {"src", "srcSet", "alt", "height", "sizes"}
    /\ calls[i].result.height = 2400

C12_WitnessOmitted ==
  \E i \in CallsOf("createWorkImage") :
    /\ calls[i].args = <<"/a", "Alt text", Num(1), Undefined>>
    /\ DOMAIN calls[i].result = {"src", "srcSet", "alt", "width", "sizes"}
    /\ calls[i].result.width = 1

\* the summaries of the catalog literal, as module load computes them
LoadTimeSummaries ==
  [i \in DOMAIN workDetailsDataLiteral |->
     [id |-> workDetailsDataLiteral[i].value.id,
      title |-> workDetailsDataLiteral[i].value.title,
      description |-> workDetailsDataLiteral[i].value.description,
      image |-> workDetailsDataLiteral[i].value.thumbnailImage]]

\* the write logged at position i shows in the result of the query logged
\* right after it
ShownByNextQuery(i) ==
  LET w == calls[i]
      q == calls[i + 1]
      key == w.args[1]
      \* an assignment to "__proto__" adds no key: it replaces the prototype
      added == w.op = "assign" /\ key # "__proto__"
  IN  /\ q.op = "getAllWorkSlugs" =>
           /\ added => key \in Range(q.result)
           /\ w.op = "delete" => key \notin Range(q.result)
           /\ "__proto__" \notin Range(q.result)
      /\ q.op = "getAllWorks" =>
           /\ added => w.args[2] \in Range(q.result)
           /\ w.op = "delete" => \A k \in DOMAIN q.result : q.result[k].id # key
           /\ w.op = "title" =>
                \E k \in DOMAIN q.result : q.result[k].title = w.args[2]
           /\ w.op = "thumbnailImage" =>
                \E k \in DOMAIN q.result : q.result[k].thumbnailImage = w.args[2]
      /\ (q.op = "getWorkBySlug" /\ q.args = <<key>>) =>
           /\ w.op = "assign" => q.result = w.args[2]
           /\ w.op = "delete" => q.result = Undefined
           /\ w.op = "title" => q.result.title = w.args[2]
           /\ w.op = "thumbnailImage" => q.result.thumbnailImage = w.args[2]
      /\ q.op = "worksData" =>
           /\ q.result = LoadTimeSummaries
           /\ w.op \in {"title", "thumbnailImage"} =>
                \A k \in DOMAIN q.result :
                  /\ q.result[k].title # w.args[2]
                  /\ q.result[k].image # w.args[2]

\* C13: worksData is computed once, at module load, from getAllWorks() and
\* never again: every read gives the load-time sequence, and a change of the
\* exported catalog after load (a key added or removed, a title or a
\* thumbnailImage changed) shows in getAllWorks, getAllWorkSlugs and
\* getWorkBySlug while worksData keeps the load-time values.  (An assignment
\* to "__proto__" adds no key; it shows in getWorkBySlug only.)
C13_SummariesFixedAtLoad ==
  /\ worksData = LoadTimeSummaries
  /\ \A i \in CallsOf("worksData") : calls[i].result = LoadTimeSummaries
  /\ \A i \in DOMAIN calls :
       (calls[i].op \in {"assign", "delete", "title", "thumbnailImage"}
          /\ i + 1 \in DOMAIN calls
          /\ calls[i + 1].op \in {"getAllWorks", "getAllWorkSlugs",
                                   "getWorkBySlug", "worksData"})
         => ShownByNextQuery(i)
  /\ (calls # <<>> /\ calls[Len(calls)].op = "assign") =>
       /\ getWorkBySlug(calls[Len(calls)].args[1]) = calls[Len(calls)].args[2]
       /\ calls[Len(calls)].args[1] # "__proto__" =>
            /\ calls[Len(calls)].args[1] \in Range(getAllWorkSlugs)
            /\ calls[Len(calls)].args[2] \in Range(getAllWorks)
       /\ calls[Len(calls)].args[1] = "__proto__" =>
            /\ prototype = calls[Len(calls)].args[2]
            /\ "__proto__" \notin Range(getAllWorkSlugs)
  /\ (calls # <<>> /\ calls[Len(calls)].op = "delete") =>
       /\ getWorkBySlug(calls[Len(calls)].args[1]) = Undefined
       /\ calls[Len(calls)].args[1] \notin Range(getAllWorkSlugs)
  /\ (calls # <<>> /\ calls[Len(calls)].op = "title") =>
       /\ getWorkBySlug(calls[Len(calls)].args[1]).title = calls[Len(calls)].args[2]
       /\ \A k \in DOMAIN worksData : worksData[k].title # calls[Len(calls)].args[2]
  /\ (calls # <<>> /\ calls[Len(calls)].op = "thumbnailImage") =>
       /\ getWorkBySlug(calls[Len(calls)].args[1]).thumbnailImage
            = calls[Len(calls)].args[2]
       /\ \A k \in DOMAIN worksData : worksData[k].image # calls[Len(calls)].args[2]

C13_Witness ==
  /\ Len(calls) = 2
  /\ calls[1].op = "title"
  /\ calls[1].args = <<"corevia-financial-platform", "Renamed Project">>
  /\ calls[2].op = "worksData"
  /\ calls[2].result[1].id = "corevia-financial-platform"
  /\ calls[2].result[1].title = "Corevia Financial Management Platform"
  /\ getWorkBySlug("corevia-financial-platform").title = "Renamed Project"
  /\ getAllWorks[1].title = "Renamed Project"

C13_WitnessKeyAdded ==
  /\ Len(calls) = 2
  /\ calls[1].op = "assign"
  /\ calls[1].args[1] = "new-project"
  /\ calls[2].op = "getAllWorkSlugs"
  /\ calls[2].result[Len(calls[2].result)] = "new-project"
  /\ Len(calls[2].result) = Len(worksData) + 1

C13_WitnessPrototypeReplaced ==
  /\ Len(calls) = 2
  /\ calls[1].op = "assign"
  /\ calls[1].args[1] = "__proto__"
  /\ calls[2].op = "getWorkBySlug"
  /\ calls[2].args = <<"title">>
  /\ calls[2].result = "New Project"
  /\ Len(getAllWorkSlugs) = Len(worksData)
  /\ worksData = LoadTimeSummaries

C13_WitnessLargeNumeralKey ==
  /\ Len(calls) = 2
  /\ calls[1].op = "assign"
  /\ calls[1].args[1] = "7"
  /\ calls[2].op = "assign"
  /\ calls[2].args[1] = "4294967295"
  /\ getAllWorkSlugs[1] = "7"
  /\ getAllWorkSlugs[Len(getAllWorkSlugs)] = "4294967295"

C13_WitnessKeyRemoved ==
  /\ Len(calls) = 2
  /\ calls[1].op = "delete"
  /\ calls[1].args[1] = "corevia-financial-platform"
  /\ calls[2].op = "getWorkBySlug"
  /\ calls[2].args = <<"corevia-financial-platform">>
  /\ calls[2].result = Undefined
  /\ worksData[1].id = "corevia-financial-platform"

====
